---- MODULE Spec2Model ----
(***************************************************************************)
(* cost-tracker: one process invocation of the CLI (main.go).              *)
(*                                                                         *)
(* The state is the process's position (pc), the locals of the "get"       *)
(* subcommand's Run closure, and the observable history: the queries sent  *)
(* to Cost Explorer, the webhook posts, the log entries and the lines on   *)
(* standard output.  A Go pointer is modelled as a sequence of length at   *)
(* most one: Nil is the nil pointer and Ptr(v) a pointer to v.             *)
(***************************************************************************)
EXTENDS Integers, Sequences, FiniteSets, TLC

VARIABLES
    pc,          \* position of the process
    argv,        \* invocation: [cmd, days, envDays, cfgDays] (pointers: the --days
                 \* flag, COSTTRACKER_DAYS, "days" of cost-tracker-config.json)
    webhookURL,  \* os.Getenv("SLACK_WEBHOOK_URL")
    days,        \* value of the "days" flag as read by Run
    ctx,         \* Run's context (pointer; Nil before it is created)
    tracker,     \* *CostTracker returned by NewCostTracker
    apiResult,   \* what GetCostAndUsage returned: [out, err]
    gcs,         \* GetCostsByService: "idle", "running", "returned", "panicked"
    costs,       \* Run's local costs ([]CostByTime)
    err,         \* Run's local err (pointer to the error text)
    message,     \* argument of the sendSlackNotification call in progress
    after,       \* where sendSlackNotification returns to
    ceLog,       \* requests sent to GetCostAndUsage, in order
    ctxLog,      \* context handed to each SDK call, in order: [call, ctx]
    notifyLog,   \* messages passed to sendSlackNotification, in order
    slackLog,    \* messages posted with slack.PostWebhook, in order
    log,         \* entries written to the zap logger, in order
    stdout,      \* lines printed to standard output, in order
    exitCode     \* process exit status (pointer; Nil while running)

vars == <<pc, argv, webhookURL, days, ctx, tracker, apiResult, gcs, costs, err,
          message, after, ceLog, ctxLog, notifyLog, slackLog, log, stdout, exitCode>>

Nil == <<>>
Ptr(v) == <<v>>
Deref(p) == p[1]

-----------------------------------------------------------------------------
(* Constants of main.go *)

AWSDateFormat == "2006-01-02"
MetricBlendedCost == "BlendedCost"
GranularityMonthly == "MONTHLY"
GroupByTypeDimension == "DIMENSION"
GroupByServiceKey == "SERVICE"
DefaultDays == 30
NameWidth == 30
ExitOK == 0
ExitFatal == 1
ExitPanic == 2
ContextTimeoutMinutes == 5

-----------------------------------------------------------------------------
(* fmt: %d and %-30s *)

Digit(d) ==
    CASE d = 0 -> "0" [] d = 1 -> "1" [] d = 2 -> "2" [] d = 3 -> "3"
      [] d = 4 -> "4" [] d = 5 -> "5" [] d = 6 -> "6" [] d = 7 -> "7"
      [] d = 8 -> "8" [] d = 9 -> "9"

RECURSIVE NatToStr(_)
NatToStr(n) == IF n < 10 THEN Digit(n) ELSE NatToStr(n \div 10) \o Digit(n % 10)

IntToStr(n) == IF n < 0 THEN "-" \o NatToStr(-n) ELSE NatToStr(n)

RECURSIVE PadRight(_, _)
PadRight(s, n) == IF Len(s) >= n THEN s ELSE PadRight(s \o " ", n)

RECURSIVE PadLeftZero(_, _)
PadLeftZero(s, n) == IF Len(s) >= n THEN s ELSE PadLeftZero("0" \o s, n)

-----------------------------------------------------------------------------
(* time: a date is [year, month, day]; AddDate normalises through the day   *)
(* number of the proleptic Gregorian calendar (day 0 = 1970-01-01).         *)

DayNumber(t) ==
    LET y == IF t.month <= 2 THEN t.year - 1 ELSE t.year
        era == y \div 400
        yoe == y - era * 400
        mp == IF t.month > 2 THEN t.month - 3 ELSE t.month + 9
        doy == (153 * mp + 2) \div 5 + t.day - 1
        doe == yoe * 365 + yoe \div 4 - yoe \div 100 + doy
    IN  era * 146097 + doe - 719468

DateOfDayNumber(n) ==
    LET z == n + 719468
        era == z \div 146097
        doe == z - era * 146097
        yoe == (doe - doe \div 1460 + doe \div 36524 - doe \div 146096) \div 365
        doy == doe - (365 * yoe + yoe \div 4 - yoe \div 100)
        mp == (5 * doy + 2) \div 153
        d == doy - (153 * mp + 2) \div 5 + 1
        m == IF mp < 10 THEN mp + 3 ELSE mp - 9
    IN  [year |-> IF m <= 2 THEN yoe + era * 400 + 1 ELSE yoe + era * 400,
         month |-> m, day |-> d]

\* t.AddDate(0, 0, n)
AddDays(t, n) == DateOfDayNumber(DayNumber(t) + n)

\* t.Format(AWSDateFormat)
FormatDate(t) ==
    PadLeftZero(IntToStr(t.year), 4) \o "-" \o PadLeftZero(IntToStr(t.month), 2)
        \o "-" \o PadLeftZero(IntToStr(t.day), 2)

-----------------------------------------------------------------------------
(* The inputs of one invocation *)

MaxItems == 3

Commands == {"get", "none", "badflag"}
DaysFlags == {Nil, Ptr(-5), Ptr(0), Ptr(7)}
EnvDays == {Nil, Ptr(7)}
ConfigFileDays == {Nil, Ptr(15)}
WebhookURLs == {"", "https://hooks.slack.com/services/T0/B0/X0"}
ConfigErrors == {"failed to refresh cached credentials"}
DeadlineExceeded == "context deadline exceeded"
APIErrors == {"simulated AWS API error", DeadlineExceeded}
SlackErrors == {"slack server error: 404 Not Found"}
NowDates == {[year |-> 2024, month |-> 1, day |-> 31], [year |-> 2024, month |-> 3, day |-> 1]}

ServiceKeys == {<<>>, <<"Amazon EC2">>, <<"Amazon S3", "Amazon EC2">>}
MetricMaps ==
    {<<>>}
    \cup {[m \in {MetricBlendedCost} |-> [Amount |-> a, Unit |-> u]] :
             a \in {Nil, Ptr("100.00")}, u \in {Nil, Ptr("USD")}}
    \cup {[m \in {MetricBlendedCost} |-> [Amount |-> Ptr("7.50"), Unit |-> Ptr("USD")]]}
GroupValues == {[Keys |-> k, Metrics |-> m] : k \in ServiceKeys, m \in MetricMaps}

TimePeriods ==
    {Nil,
     Ptr([Start |-> Nil, End |-> Ptr("2024-01-31")]),
     Ptr([Start |-> Ptr("2024-01-01"), End |-> Nil]),
     Ptr([Start |-> Ptr("2024-01-01"), End |-> Ptr("2024-01-31")]),
     Ptr([Start |-> Ptr("2024-02-01"), End |-> Ptr("2024-02-29")])}

\* The shapes of a response: the number of grouped entries of each bucket, for
\* at most `budget` buckets and grouped entries altogether.
RECURSIVE Shapes(_)
Shapes(budget) ==
    {<<>>} \cup
    UNION {{<<k>> \o rest : rest \in Shapes(budget - 1 - k)} : k \in 0..(budget - 1)}

RECURSIVE Sum(_, _)
Sum(counts, n) == IF n = 0 THEN 0 ELSE counts[n] + Sum(counts, n - 1)

\* ResultsByTime of the given shape: bucket i has time period tps[i] and the
\* next counts[i] entries of flat as its groups.
MakeResults(counts, tps, flat) ==
    [i \in 1..Len(counts) |->
        [TimePeriod |-> tps[i],
         Groups |-> SubSeq(flat, Sum(counts, i - 1) + 1, Sum(counts, i))]]

-----------------------------------------------------------------------------
(* CostTracker.GetCostsByService: the pure parts *)

\* Variant: only negative values are rejected.
InvalidDays_negativeOnly(d) == d < 0

InvalidDays(d) == d <= 0

DaysError(d) == Ptr("days must be a positive integer, got " \o IntToStr(d))

\* The GetCostAndUsageInput built at time now for a lookback of d days.
\* Variant: the interval counts today as the first of the days.
CostAndUsageInput_inclusive(now, d) ==
    LET endDate == now
        startDate == AddDays(endDate, -(d - 1))
    IN  [TimePeriod |-> [Start |-> FormatDate(startDate), End |-> FormatDate(endDate)],
         Granularity |-> GranularityMonthly,
         Metrics |-> <<MetricBlendedCost>>,
         GroupBy |-> <<[Type |-> GroupByTypeDimension, Key |-> GroupByServiceKey]>>]

CostAndUsageInput(now, d) ==
    LET endDate == now
        startDate == AddDays(endDate, -d)
    IN  [TimePeriod |-> [Start |-> FormatDate(startDate), End |-> FormatDate(endDate)],
         Granularity |-> GranularityMonthly,
         Metrics |-> <<MetricBlendedCost>>,
         GroupBy |-> <<[Type |-> GroupByTypeDimension, Key |-> GroupByServiceKey]>>]

\* Variant: the collaborator's error is dropped.
WrapQueryError_swallowed(e) == Nil

WrapQueryError(e) == Ptr("failed to get cost data from AWS Cost Explorer: " \o e)

\* Variant: the last key names the service.
ServiceNameOf_lastKey(group) ==
    IF Len(group.Keys) > 0 THEN group.Keys[Len(group.Keys)] ELSE "N/A"

\* serviceName := "N/A"; if len(group.Keys) > 0 { serviceName = group.Keys[0] }
ServiceNameOf(group) == IF Len(group.Keys) > 0 THEN group.Keys[1] ELSE "N/A"

\* !ok || metric.Amount == nil || metric.Unit == nil
MetricIncomplete(group) ==
    \/ MetricBlendedCost \notin DOMAIN group.Metrics
    \/ group.Metrics[MetricBlendedCost].Amount = Nil
    \/ group.Metrics[MetricBlendedCost].Unit = Nil

MetricWarning(serviceName, periodCosts) ==
    [level |-> "warn", msg |-> "Metric not found or incomplete for service",
     metric |-> MetricBlendedCost, service |-> serviceName,
     periodStart |-> periodCosts.Start, periodEnd |-> periodCosts.End]

\* Variant: the amount is parsed as a number and printed again, which drops
\* its trailing zeros.
NewServiceCost_reformatted(serviceName, metric) ==
    [ServiceName |-> serviceName,
     Amount |-> CASE Deref(metric.Amount) = "100.00" -> "100"
                  [] Deref(metric.Amount) = "7.50" -> "7.5"
                  [] OTHER -> Deref(metric.Amount),
     Unit |-> Deref(metric.Unit)]

NewServiceCost(serviceName, metric) ==
    [ServiceName |-> serviceName, Amount |-> Deref(metric.Amount), Unit |-> Deref(metric.Unit)]

\* Variant: an incomplete entry is kept with empty amount and unit.
RECURSIVE GroupLoop_keepIncomplete(_, _, _, _)
GroupLoop_keepIncomplete(groups, i, periodCosts, warns) ==
    IF i > Len(groups)
    THEN [periodCosts |-> periodCosts, warns |-> warns]
    ELSE LET group == groups[i]
             serviceName == ServiceNameOf(group)
         IN  IF MetricIncomplete(group)
             THEN GroupLoop_keepIncomplete(groups, i + 1,
                            [periodCosts EXCEPT !.ServiceCosts =
                                Append(@, [ServiceName |-> serviceName,
                                           Amount |-> "", Unit |-> ""])],
                            Append(warns, MetricWarning(serviceName, periodCosts)))
             ELSE GroupLoop_keepIncomplete(groups, i + 1,
                            [periodCosts EXCEPT !.ServiceCosts =
                                Append(@, NewServiceCost(serviceName,
                                                         group.Metrics[MetricBlendedCost]))],
                            warns)

\* Variant: an incomplete entry ends the loop over the bucket's groups (break
\* for continue).
RECURSIVE GroupLoop_breakOnIncomplete(_, _, _, _)
GroupLoop_breakOnIncomplete(groups, i, periodCosts, warns) ==
    IF i > Len(groups)
    THEN [periodCosts |-> periodCosts, warns |-> warns]
    ELSE LET group == groups[i]
             serviceName == ServiceNameOf(group)
         IN  IF MetricIncomplete(group)
             THEN [periodCosts |-> periodCosts,
                   warns |-> Append(warns, MetricWarning(serviceName, periodCosts))]
             ELSE GroupLoop_breakOnIncomplete(groups, i + 1,
                            [periodCosts EXCEPT !.ServiceCosts =
                                Append(@, NewServiceCost(serviceName,
                                                         group.Metrics[MetricBlendedCost]))],
                            warns)

\* Variant: each service cost is put in front of the period's list.
RECURSIVE GroupLoop_prepend(_, _, _, _)
GroupLoop_prepend(groups, i, periodCosts, warns) ==
    IF i > Len(groups)
    THEN [periodCosts |-> periodCosts, warns |-> warns]
    ELSE LET group == groups[i]
             serviceName == ServiceNameOf(group)
         IN  IF MetricIncomplete(group)
             THEN GroupLoop_prepend(groups, i + 1, periodCosts,
                            Append(warns, MetricWarning(serviceName, periodCosts)))
             ELSE GroupLoop_prepend(groups, i + 1,
                            [periodCosts EXCEPT !.ServiceCosts =
                                <<NewServiceCost(serviceName,
                                                 group.Metrics[MetricBlendedCost])>> \o @],
                            warns)

\* Variant: a period is warned about once, at its first incomplete entry.
RECURSIVE GroupLoop_warnOncePerPeriod(_, _, _, _)
GroupLoop_warnOncePerPeriod(groups, i, periodCosts, warns) ==
    IF i > Len(groups)
    THEN [periodCosts |-> periodCosts, warns |-> warns]
    ELSE LET group == groups[i]
             serviceName == ServiceNameOf(group)
         IN  IF MetricIncomplete(group)
             THEN GroupLoop_warnOncePerPeriod(groups, i + 1, periodCosts,
                            IF \E k \in 1..(i - 1) : MetricIncomplete(groups[k])
                            THEN warns
                            ELSE Append(warns, MetricWarning(serviceName, periodCosts)))
             ELSE GroupLoop_warnOncePerPeriod(groups, i + 1,
                            [periodCosts EXCEPT !.ServiceCosts =
                                Append(@, NewServiceCost(serviceName,
                                                         group.Metrics[MetricBlendedCost]))],
                            warns)

\* Variant: one ServiceCost per service name: an entry whose service the
\* period already lists replaces that service's amount and unit.
RECURSIVE GroupLoop_mergeSameService(_, _, _, _)
GroupLoop_mergeSameService(groups, i, periodCosts, warns) ==
    IF i > Len(groups)
    THEN [periodCosts |-> periodCosts, warns |-> warns]
    ELSE LET group == groups[i]
             serviceName == ServiceNameOf(group)
             listed == {k \in 1..Len(periodCosts.ServiceCosts) :
                           periodCosts.ServiceCosts[k].ServiceName = serviceName}
         IN  IF MetricIncomplete(group)
             THEN GroupLoop_mergeSameService(groups, i + 1, periodCosts,
                            Append(warns, MetricWarning(serviceName, periodCosts)))
             ELSE GroupLoop_mergeSameService(groups, i + 1,
                            [periodCosts EXCEPT !.ServiceCosts =
                                IF listed = {}
                                THEN Append(@, NewServiceCost(serviceName,
                                                    group.Metrics[MetricBlendedCost]))
                                ELSE [k \in 1..Len(@) |->
                                        IF k \in listed
                                        THEN NewServiceCost(serviceName,
                                                    group.Metrics[MetricBlendedCost])
                                        ELSE @[k]]],
                            warns)

\* The inner loop over resultByTime.Groups, from index i on.
RECURSIVE GroupLoop(_, _, _, _)
GroupLoop(groups, i, periodCosts, warns) ==
    IF i > Len(groups)
    THEN [periodCosts |-> periodCosts, warns |-> warns]
    ELSE LET group == groups[i]
             serviceName == ServiceNameOf(group)
         IN  IF MetricIncomplete(group)
             THEN GroupLoop(groups, i + 1, periodCosts,
                            Append(warns, MetricWarning(serviceName, periodCosts)))
             ELSE GroupLoop(groups, i + 1,
                            [periodCosts EXCEPT !.ServiceCosts =
                                Append(@, NewServiceCost(serviceName,
                                                         group.Metrics[MetricBlendedCost]))],
                            warns)

\* *resultByTime.TimePeriod.Start or *resultByTime.TimePeriod.End is a nil dereference
NilTimePeriod(resultByTime) ==
    \/ resultByTime.TimePeriod = Nil
    \/ Deref(resultByTime.TimePeriod).Start = Nil
    \/ Deref(resultByTime.TimePeriod).End = Nil

\* Variant: each period is put in front of the report instead of at its end.
RECURSIVE BucketLoop_prepend(_, _, _, _)
BucketLoop_prepend(results, i, allCosts, warns) ==
    IF i > Len(results)
    THEN [panicked |-> FALSE, allCosts |-> allCosts, warns |-> warns]
    ELSE IF NilTimePeriod(results[i])
    THEN [panicked |-> TRUE, allCosts |-> <<>>, warns |-> warns]
    ELSE LET resultByTime == results[i]
             periodCosts == [Start |-> Deref(Deref(resultByTime.TimePeriod).Start),
                             End |-> Deref(Deref(resultByTime.TimePeriod).End),
                             ServiceCosts |-> <<>>]
             inner == GroupLoop(resultByTime.Groups, 1, periodCosts, warns)
         IN  BucketLoop_prepend(results, i + 1, <<inner.periodCosts>> \o allCosts,
                                inner.warns)

\* The outer loop over result.ResultsByTime, from index i on.  A nil
\* dereference panics: the warnings logged so far stay logged, nothing is returned.
RECURSIVE BucketLoop(_, _, _, _)
BucketLoop(results, i, allCosts, warns) ==
    IF i > Len(results)
    THEN [panicked |-> FALSE, allCosts |-> allCosts, warns |-> warns]
    ELSE IF NilTimePeriod(results[i])
    THEN [panicked |-> TRUE, allCosts |-> <<>>, warns |-> warns]
    ELSE LET resultByTime == results[i]
             periodCosts == [Start |-> Deref(Deref(resultByTime.TimePeriod).Start),
                             End |-> Deref(Deref(resultByTime.TimePeriod).End),
                             ServiceCosts |-> <<>>]
             inner == GroupLoop(resultByTime.Groups, 1, periodCosts, warns)
         IN  BucketLoop(results, i + 1, Append(allCosts, inner.periodCosts), inner.warns)

\* Variant: an output without buckets is reported as an error.
BuildReport_emptyIsError(result) ==
    IF result = Nil
    THEN [panicked |-> TRUE, allCosts |-> <<>>, err |-> Nil, warns |-> <<>>]
    ELSE LET loop == BucketLoop(Deref(result).ResultsByTime, 1, <<>>, <<>>)
         IN  [panicked |-> loop.panicked, allCosts |-> loop.allCosts,
              err |-> IF Len(Deref(result).ResultsByTime) = 0
                      THEN Ptr("no cost data returned") ELSE Nil,
              warns |-> loop.warns]

\* Lines 105-138 on the output of a successful call: the report and the nil
\* error of `return allCosts, nil`.  result.ResultsByTime of a nil result panics.
BuildReport(result) ==
    IF result = Nil
    THEN [panicked |-> TRUE, allCosts |-> <<>>, err |-> Nil, warns |-> <<>>]
    ELSE LET loop == BucketLoop(Deref(result).ResultsByTime, 1, <<>>, <<>>)
         IN  [panicked |-> loop.panicked, allCosts |-> loop.allCosts, err |-> Nil,
              warns |-> loop.warns]

-----------------------------------------------------------------------------
(* displayCosts *)

\* Variant: the service name is printed without padding (%s for %-30s).
ServiceLine_unpadded(serviceCost) ==
    "  " \o serviceCost.ServiceName \o ": " \o serviceCost.Amount \o " " \o serviceCost.Unit

ServiceLine(serviceCost) ==
    "  " \o PadRight(serviceCost.ServiceName, NameWidth) \o ": "
         \o serviceCost.Amount \o " " \o serviceCost.Unit

RECURSIVE ServiceLines(_, _)
ServiceLines(serviceCosts, i) ==
    IF i > Len(serviceCosts) THEN <<>>
    ELSE <<ServiceLine(serviceCosts[i])>> \o ServiceLines(serviceCosts, i + 1)

\* Variant: no blank line is printed after a period.
PeriodLines_noBlank(period) ==
    <<"Period: " \o period.Start \o " to " \o period.End>>
    \o (IF Len(period.ServiceCosts) = 0
        THEN <<"  No service costs found for this period.">>
        ELSE ServiceLines(period.ServiceCosts, 1))

\* Variant: the last service cost of a period is not printed.
PeriodLines_dropLast(period) ==
    <<"Period: " \o period.Start \o " to " \o period.End>>
    \o (IF Len(period.ServiceCosts) = 0
        THEN <<"  No service costs found for this period.">>
        ELSE ServiceLines(SubSeq(period.ServiceCosts, 1, Len(period.ServiceCosts) - 1), 1))
    \o <<"">>

PeriodLines(period) ==
    <<"Period: " \o period.Start \o " to " \o period.End>>
    \o (IF Len(period.ServiceCosts) = 0
        THEN <<"  No service costs found for this period.">>
        ELSE ServiceLines(period.ServiceCosts, 1))
    \o <<"">>

RECURSIVE AllPeriodLines(_, _)
AllPeriodLines(cs, i) ==
    IF i > Len(cs) THEN <<>> ELSE PeriodLines(cs[i]) \o AllPeriodLines(cs, i + 1)

\* Variant: an empty report is announced without the header.
DisplayLines_noHeaderWhenEmpty(cs, d) ==
    IF Len(cs) = 0
    THEN <<"No cost data found for the specified period.">>
    ELSE <<"AWS Costs for the last " \o IntToStr(d) \o " days:",
           "=====================================">>
         \o AllPeriodLines(cs, 1)

DisplayLines(cs, d) ==
    <<"AWS Costs for the last " \o IntToStr(d) \o " days:",
      "=====================================">>
    \o (IF Len(cs) = 0
        THEN <<"No cost data found for the specified period.">>
        ELSE AllPeriodLines(cs, 1))

-----------------------------------------------------------------------------
(* The process: main, the "get" command's Run closure, sendSlackNotification *)

LogEntry(level, msg) == [level |-> level, msg |-> msg]

\* Invocations with COSTTRACKER_DAYS unset and no configuration file.
Invocations ==
    {[cmd |-> "get", days |-> f, envDays |-> Nil, cfgDays |-> Nil] : f \in DaysFlags}
    \cup {[cmd |-> c, days |-> Nil, envDays |-> Nil, cfgDays |-> Nil] :
             c \in Commands \ {"get"}}

\* Invocations of the get command under every combination of the sources
\* the documentation names for "days".
ConfiguredInvocations ==
    {[cmd |-> "get", days |-> f, envDays |-> e, cfgDays |-> c] :
        f \in DaysFlags, e \in EnvDays, c \in ConfigFileDays}

\* The process before main runs, for an invocation of the set invs.
Start(invs) ==
    /\ pc = "main"
    /\ argv \in invs
    /\ webhookURL \in WebhookURLs
    /\ days = DefaultDays
    /\ ctx = Nil
    /\ tracker = Nil
    /\ apiResult = Nil
    /\ gcs = "idle"
    /\ costs = <<>>
    /\ err = Nil
    /\ message = ""
    /\ after = ""
    /\ ceLog = <<>>
    /\ ctxLog = <<>>
    /\ notifyLog = <<>>
    /\ slackLog = <<>>
    /\ log = <<>>
    /\ stdout = <<>>
    /\ exitCode = Nil

Init == Start(Invocations)

InitConfigured == Start(ConfiguredInvocations)

\* A call of sendSlackNotification(text) that returns to position ret.
CallNotify(text, ret) ==
    /\ pc' = "notify"
    /\ message' = text
    /\ after' = ret
    /\ notifyLog' = Append(notifyLog, text)

\* rootCmd has no Run of its own: without a subcommand Execute prints the
\* usage and returns nil.
ExecuteHelp ==
    /\ pc = "main"
    /\ argv.cmd = "none"
    /\ stdout' = Append(stdout, "cost-tracker is a CLI tool that fetches and displays AWS cost and usage data grouped by service.")
    /\ pc' = "return"
    /\ UNCHANGED <<ctx, ctxLog, argv, webhookURL, days, tracker, apiResult, gcs, costs, err,
                   message, after, ceLog, notifyLog, slackLog, log, exitCode>>

\* rootCmd.Execute() returns an error (a flag that does not parse): main
\* notifies and dies.
ExecuteError ==
    /\ pc = "main"
    /\ argv.cmd = "badflag"
    /\ err' = Ptr("invalid argument for -d, --days flag")
    /\ CallNotify("Cost Tracker Critical Error: Error executing root command: "
                  \o Deref(err'), "fatalExecute")
    /\ UNCHANGED <<ctx, ctxLog, argv, webhookURL, days, tracker, apiResult, gcs, costs,
                   ceLog, slackLog, log, stdout, exitCode>>

\* A context is a record with its deadline (a pointer: Nil when it has none).
Background == [deadline |-> Nil]
WithTimeout(parent, minutes) == [deadline |-> Ptr(minutes)]
HasDeadline(c) == c # Nil /\ Deref(c).deadline # Nil

\* Run: days, err := cmd.Flags().GetInt("days").  The flag is registered as an
\* int with default DefaultDays, so GetInt does not fail.  Neither the
\* environment nor a configuration file is consulted.  Then the context is
\* created.
RunGetDays ==
    /\ pc = "main"
    /\ argv.cmd = "get"
    /\ days' = IF argv.days = Nil THEN DefaultDays ELSE Deref(argv.days)
    /\ ctx' = Ptr(WithTimeout(Background, ContextTimeoutMinutes))
    /\ pc' = "newTracker"
    /\ UNCHANGED <<ctxLog, argv, webhookURL, tracker, apiResult, gcs, costs, err,
                   message, after, ceLog, notifyLog, slackLog, log, stdout, exitCode>>

\* NewCostTracker(ctx): config.LoadDefaultConfig(ctx) succeeds.
NewCostTrackerOK ==
    /\ pc = "newTracker"
    /\ ctxLog' = Append(ctxLog, [call |-> "LoadDefaultConfig", ctx |-> ctx])
    /\ tracker' = Ptr([client |-> Ptr("costexplorer.Client")])
    /\ pc' = "getCosts"
    /\ UNCHANGED <<ctx, argv, webhookURL, days, apiResult, gcs, costs, err,
                   message, after, ceLog, notifyLog, slackLog, log, stdout, exitCode>>

\* Variant: on a configuration error NewCostTracker returns the error together
\* with a tracker that has no client.
NewCostTrackerFail_partialTracker ==
    /\ pc = "newTracker"
    /\ ctxLog' = Append(ctxLog, [call |-> "LoadDefaultConfig", ctx |-> ctx])
    /\ tracker' = Ptr([client |-> Nil])
    /\ \E e \in ConfigErrors :
          /\ err' = Ptr("unable to load SDK config: " \o e)
          /\ CallNotify("Cost Tracker Error: Failed to create cost tracker: "
                        \o Deref(err'), "fatalTracker")
    /\ UNCHANGED <<ctx, argv, webhookURL, days, apiResult, gcs, costs,
                   ceLog, slackLog, log, stdout, exitCode>>

\* NewCostTracker(ctx): config.LoadDefaultConfig(ctx) fails.
NewCostTrackerFail ==
    /\ pc = "newTracker"
    /\ ctxLog' = Append(ctxLog, [call |-> "LoadDefaultConfig", ctx |-> ctx])
    /\ \E e \in ConfigErrors :
          /\ err' = Ptr("unable to load SDK config: " \o e)
          /\ CallNotify("Cost Tracker Error: Failed to create cost tracker: "
                        \o Deref(err'), "fatalTracker")
    /\ UNCHANGED <<ctx, argv, webhookURL, days, tracker, apiResult, gcs, costs,
                   ceLog, slackLog, log, stdout, exitCode>>

\* GetCostsByService, days <= 0: the early return.
GetCostsRejectDays ==
    /\ pc = "getCosts"
    /\ InvalidDays(days)
    /\ gcs' = "returned"
    /\ costs' = <<>>
    /\ err' = DaysError(days)
    /\ pc' = "gotCosts"
    /\ UNCHANGED <<ctx, ctxLog, argv, webhookURL, days, tracker, apiResult,
                   message, after, ceLog, notifyLog, slackLog, log, stdout, exitCode>>

\* Variant: the query is sent with a context that has no deadline.
GetCostsQuery_backgroundCtx ==
    /\ pc = "getCosts"
    /\ ~InvalidDays(days)
    /\ gcs' = "running"
    /\ \E now \in NowDates : ceLog' = Append(ceLog, CostAndUsageInput(now, days))
    /\ ctxLog' = Append(ctxLog, [call |-> "GetCostAndUsage", ctx |-> Ptr(Background)])
    /\ pc' = "query"
    /\ UNCHANGED <<ctx, argv, webhookURL, days, tracker, apiResult, costs, err,
                   message, after, notifyLog, slackLog, log, stdout, exitCode>>

\* GetCostsByService, days > 0: the request is built and sent.
GetCostsQuery ==
    /\ pc = "getCosts"
    /\ ~InvalidDays(days)
    /\ gcs' = "running"
    /\ \E now \in NowDates : ceLog' = Append(ceLog, CostAndUsageInput(now, days))
    /\ ctxLog' = Append(ctxLog, [call |-> "GetCostAndUsage", ctx |-> ctx])
    /\ pc' = "query"
    /\ UNCHANGED <<ctx, argv, webhookURL, days, tracker, apiResult, costs, err,
                   message, after, notifyLog, slackLog, log, stdout, exitCode>>

\* Variant: a failed query is sent once more before the error is returned.
GetCostAndUsageError_retry ==
    /\ pc = "query"
    /\ \E e \in APIErrors :
          /\ e = DeadlineExceeded => HasDeadline(ctxLog[Len(ctxLog)].ctx)
          /\ apiResult' = Ptr([out |-> Nil, err |-> Ptr(e)])
          /\ err' = WrapQueryError(e)
    /\ IF Len(ceLog) < 2
       THEN /\ ceLog' = Append(ceLog, ceLog[Len(ceLog)])
            /\ UNCHANGED <<pc, gcs, costs>>
       ELSE /\ costs' = <<>>
            /\ gcs' = "returned"
            /\ pc' = "gotCosts"
            /\ UNCHANGED ceLog
    /\ UNCHANGED <<ctx, ctxLog, argv, webhookURL, days, tracker,
                   message, after, notifyLog, slackLog, log, stdout, exitCode>>

\* The collaborator fails, or the deadline of the context it was called with
\* expires and the call is abandoned: the error is wrapped and returned.
GetCostAndUsageError ==
    /\ pc = "query"
    /\ \E e \in APIErrors :
          /\ e = DeadlineExceeded => HasDeadline(ctxLog[Len(ctxLog)].ctx)
          /\ apiResult' = Ptr([out |-> Nil, err |-> Ptr(e)])
          /\ err' = WrapQueryError(e)
    /\ costs' = <<>>
    /\ gcs' = "returned"
    /\ pc' = "gotCosts"
    /\ UNCHANGED <<ctx, ctxLog, argv, webhookURL, days, tracker,
                   message, after, ceLog, notifyLog, slackLog, log, stdout, exitCode>>

\* GetCostsByService after a successful call that returned out: lines 105-138.
ReceiveOutput(out) ==
    LET built == BuildReport(out) IN
    /\ apiResult' = Ptr([out |-> out, err |-> Nil])
    /\ log' = log \o built.warns
    /\ IF built.panicked
       THEN /\ gcs' = "panicked"
            /\ pc' = "exited"
            /\ exitCode' = Ptr(ExitPanic)
            /\ UNCHANGED <<costs, err>>
       ELSE /\ gcs' = "returned"
            /\ costs' = built.allCosts
            /\ err' = built.err
            /\ pc' = "gotCosts"
            /\ UNCHANGED exitCode

\* The collaborator succeeds: the report is built from its output, which is
\* a nil pointer or an output with its ResultsByTime.
GetCostAndUsageOK ==
    /\ pc = "query"
    /\ \/ ReceiveOutput(Nil)
       \/ \E counts \in Shapes(MaxItems) :
          \E tps \in [1..Len(counts) -> TimePeriods] :
          \E flat \in [1..Sum(counts, Len(counts)) -> GroupValues] :
             ReceiveOutput(Ptr([ResultsByTime |-> MakeResults(counts, tps, flat)]))
    /\ UNCHANGED <<ctx, ctxLog, argv, webhookURL, days, tracker,
                   message, after, ceLog, notifyLog, slackLog, stdout>>

\* Variant: the (empty) result is rendered before the failure is handled.
RunCostsFailed_rendersFirst ==
    /\ pc = "gotCosts"
    /\ err # Nil
    /\ stdout' = stdout \o DisplayLines(costs, days)
    /\ CallNotify("Cost Tracker Error: Error getting costs: " \o Deref(err), "fatalCosts")
    /\ UNCHANGED <<ctx, ctxLog, argv, webhookURL, days, tracker, apiResult, gcs, costs, err,
                   ceLog, slackLog, log, exitCode>>

\* Variant: the run dies on a failed cost query without notifying.
RunCostsFailed_noNotify ==
    /\ pc = "gotCosts"
    /\ err # Nil
    /\ pc' = "fatalCosts"
    /\ UNCHANGED <<ctx, ctxLog, argv, webhookURL, days, tracker, apiResult, gcs, costs, err,
                   message, after, ceLog, notifyLog, slackLog, log, stdout, exitCode>>

\* Run, err != nil after GetCostsByService.
RunCostsFailed ==
    /\ pc = "gotCosts"
    /\ err # Nil
    /\ CallNotify("Cost Tracker Error: Error getting costs: " \o Deref(err), "fatalCosts")
    /\ UNCHANGED <<ctx, ctxLog, argv, webhookURL, days, tracker, apiResult, gcs, costs, err,
                   ceLog, slackLog, log, stdout, exitCode>>

\* Variant: displayCosts puts the periods latest first, in place, before it
\* prints them.
RunDisplayCosts_reorders ==
    /\ pc = "gotCosts"
    /\ err = Nil
    /\ log' = Append(log, LogEntry("info", "Displaying costs to console."))
    /\ costs' = [i \in 1..Len(costs) |-> costs[Len(costs) + 1 - i]]
    /\ stdout' = stdout \o DisplayLines(costs', days)
    /\ pc' = "displayed"
    /\ UNCHANGED <<ctx, ctxLog, argv, webhookURL, days, tracker, apiResult, gcs, err,
                   message, after, ceLog, notifyLog, slackLog, exitCode>>

\* Run, err == nil: displayCosts(costs, days).
RunDisplayCosts ==
    /\ pc = "gotCosts"
    /\ err = Nil
    /\ log' = Append(log, LogEntry("info", "Displaying costs to console."))
    /\ stdout' = stdout \o DisplayLines(costs, days)
    /\ pc' = "displayed"
    /\ UNCHANGED <<ctx, ctxLog, argv, webhookURL, days, tracker, apiResult, gcs, costs, err,
                   message, after, ceLog, notifyLog, slackLog, exitCode>>

\* Variant: the success message also reports the number of periods fetched.
SuccessMessage_withPeriods(d) ==
    "Successfully fetched AWS costs for the last " \o IntToStr(d) \o " days ("
    \o IntToStr(Len(costs)) \o " periods)."

\* Run: fmt.Sprintf("Successfully fetched AWS costs for the last %d days.", days)
SuccessMessage(d) == "Successfully fetched AWS costs for the last " \o IntToStr(d) \o " days."

\* Variant: a report without periods is notified as a failure and is fatal.
RunNotifySuccess_emptyIsFailure ==
    /\ pc = "displayed"
    /\ IF costs = <<>>
       THEN /\ err' = Ptr("no cost data")
            /\ CallNotify("Cost Tracker Error: Error getting costs: no cost data", "fatalCosts")
       ELSE /\ err' = err
            /\ CallNotify(SuccessMessage(days), "return")
    /\ UNCHANGED <<ctx, ctxLog, argv, webhookURL, days, tracker, apiResult, gcs, costs,
                   ceLog, slackLog, log, stdout, exitCode>>

\* Run: sendSlackNotification(slackMessage)
RunNotifySuccess ==
    /\ pc = "displayed"
    /\ CallNotify(SuccessMessage(days), "return")
    /\ UNCHANGED <<ctx, ctxLog, argv, webhookURL, days, tracker, apiResult, gcs, costs, err,
                   ceLog, slackLog, log, stdout, exitCode>>

\* Variant: the empty URL is not checked.
NoWebhook_never(url) == FALSE

\* sendSlackNotification: webhookURL == ""
NoWebhook(url) == url = ""

NotifySkip ==
    /\ pc = "notify"
    /\ NoWebhook(webhookURL)
    /\ log' = Append(log, LogEntry("info", "SLACK_WEBHOOK_URL not set. Skipping Slack notification."))
    /\ pc' = after
    /\ UNCHANGED <<ctx, ctxLog, argv, webhookURL, days, tracker, apiResult, gcs, costs, err,
                   message, after, ceLog, notifyLog, slackLog, stdout, exitCode>>

\* sendSlackNotification: slack.PostWebhook(webhookURL, &msg) is sent.
NotifyPost ==
    /\ pc = "notify"
    /\ ~NoWebhook(webhookURL)
    /\ slackLog' = Append(slackLog, [url |-> webhookURL, Text |-> message])
    /\ pc' = "posting"
    /\ UNCHANGED <<ctx, ctxLog, argv, webhookURL, days, tracker, apiResult, gcs, costs, err,
                   message, after, ceLog, notifyLog, log, stdout, exitCode>>

PostWebhookOK ==
    /\ pc = "posting"
    /\ log' = Append(log, LogEntry("info", "Successfully sent Slack notification."))
    /\ pc' = after
    /\ UNCHANGED <<ctx, ctxLog, argv, webhookURL, days, tracker, apiResult, gcs, costs, err,
                   message, after, ceLog, notifyLog, slackLog, stdout, exitCode>>

\* Variant: a failed post is fatal.
PostWebhookFail_fatal ==
    /\ pc = "posting"
    /\ \E e \in SlackErrors :
          log' = Append(log, [level |-> "fatal", msg |-> "Failed to send Slack notification",
                             error |-> e])
    /\ pc' = "exited"
    /\ exitCode' = Ptr(ExitFatal)
    /\ UNCHANGED <<ctx, ctxLog, argv, webhookURL, days, tracker, apiResult, gcs, costs, err,
                   message, after, ceLog, notifyLog, slackLog, stdout>>

PostWebhookFail ==
    /\ pc = "posting"
    /\ \E e \in SlackErrors :
          log' = Append(log, [level |-> "error", msg |-> "Failed to send Slack notification",
                             error |-> e])
    /\ pc' = after
    /\ UNCHANGED <<ctx, ctxLog, argv, webhookURL, days, tracker, apiResult, gcs, costs, err,
                   message, after, ceLog, notifyLog, slackLog, stdout, exitCode>>

FatalMessage(at) ==
    CASE at = "fatalExecute" -> "Error executing root command"
      [] at = "fatalTracker" -> "Failed to create cost tracker"
      [] at = "fatalCosts" -> "Error getting costs"

\* Variant: the fatal path ends with status 0.
Fatal_exitZero ==
    /\ pc \in {"fatalExecute", "fatalTracker", "fatalCosts"}
    /\ log' = Append(log, [level |-> "fatal", msg |-> FatalMessage(pc), error |-> Deref(err)])
    /\ exitCode' = Ptr(ExitOK)
    /\ pc' = "exited"
    /\ UNCHANGED <<ctx, ctxLog, argv, webhookURL, days, tracker, apiResult, gcs, costs, err,
                   message, after, ceLog, notifyLog, slackLog, stdout>>

\* logger.Fatalw: the entry is written and the process exits with status 1.
Fatal ==
    /\ pc \in {"fatalExecute", "fatalTracker", "fatalCosts"}
    /\ log' = Append(log, [level |-> "fatal", msg |-> FatalMessage(pc), error |-> Deref(err)])
    /\ exitCode' = Ptr(ExitFatal)
    /\ pc' = "exited"
    /\ UNCHANGED <<ctx, ctxLog, argv, webhookURL, days, tracker, apiResult, gcs, costs, err,
                   message, after, ceLog, notifyLog, slackLog, stdout>>

\* Execute returned nil: main returns and the process exits with status 0.
MainReturn ==
    /\ pc = "return"
    /\ exitCode' = Ptr(ExitOK)
    /\ pc' = "exited"
    /\ UNCHANGED <<ctx, ctxLog, argv, webhookURL, days, tracker, apiResult, gcs, costs, err,
                   message, after, ceLog, notifyLog, slackLog, log, stdout>>

Next ==
    \/ ExecuteHelp
    \/ ExecuteError
    \/ RunGetDays
    \/ NewCostTrackerOK
    \/ NewCostTrackerFail
    \/ GetCostsRejectDays
    \/ GetCostsQuery
    \/ GetCostAndUsageError
    \/ GetCostAndUsageOK
    \/ RunCostsFailed
    \/ RunDisplayCosts
    \/ RunNotifySuccess
    \/ NotifySkip
    \/ NotifyPost
    \/ PostWebhookOK
    \/ PostWebhookFail
    \/ Fatal
    \/ MainReturn

Spec == Init /\ [][Next]_vars

\* The get command under every configuration, in the runs that do not get a
\* report: the days value that Run resolved is the one handed to
\* GetCostsByService and sent in the request.
NextConfigured ==
    \/ RunGetDays
    \/ NewCostTrackerOK
    \/ NewCostTrackerFail
    \/ GetCostsRejectDays
    \/ GetCostsQuery
    \/ GetCostAndUsageError
    \/ RunCostsFailed
    \/ NotifySkip
    \/ NotifyPost
    \/ PostWebhookOK
    \/ PostWebhookFail
    \/ Fatal

SpecConfigured == InitConfigured /\ [][NextConfigured]_vars


-----------------------------------------------------------------------------
(* Properties *)

\* GetCostsByService has been entered.
Called == gcs # "idle"

\* GetCostAndUsage returned an error / returned without one.
APIFailed == apiResult # Nil /\ Deref(apiResult).err # Nil
APISucceeded == apiResult # Nil /\ Deref(apiResult).err = Nil

\* The report was returned for a successful call (the output is then not nil).
ReportReturned == gcs = "returned" /\ APISucceeded /\ Deref(apiResult).out # Nil

\* The buckets of the collaborator's output.
Buckets == Deref(Deref(apiResult).out).ResultsByTime

\* A grouped entry with the BlendedCost metric and both its amount and unit.
IsComplete(g) ==
    /\ MetricBlendedCost \in DOMAIN g.Metrics
    /\ g.Metrics[MetricBlendedCost].Amount # Nil
    /\ g.Metrics[MetricBlendedCost].Unit # Nil

CompleteEntries(groups) == SelectSeq(groups, IsComplete)

\* C1: for days <= 0 (zero or negative) GetCostsByService returns an error and
\* an empty report, and GetCostAndUsage is never invoked.
C1_InvalidDaysRejected ==
    (Called /\ days <= 0) =>
        /\ gcs = "returned"
        /\ err = Ptr("days must be a positive integer, got " \o IntToStr(days))
        /\ costs = <<>>
        /\ ceLog = <<>>
        /\ apiResult = Nil

C1_Witness == gcs = "returned" /\ days = 0 /\ err # Nil /\ pc = "gotCosts"

\* C2: when GetCostAndUsage returns an error, GetCostsByService returns a
\* non-nil error that wraps it with "failed to get cost data..." and an empty
\* report; never a report with a nil error.
C2_QueryErrorPropagates ==
    APIFailed =>
        /\ gcs = "returned"
        /\ err # Nil
        /\ err = Ptr("failed to get cost data from AWS Cost Explorer: "
                     \o Deref(Deref(apiResult).err))
        /\ costs = <<>>

C2_Witness == APIFailed /\ pc = "gotCosts" /\ Len(ceLog) = 1

\* C3: for a successful response and days > 0 the returned report has as many
\* periods as the response has buckets, and the i-th period is that of the
\* i-th bucket (its dates and its entries), whatever the groups contain.
C3_OnePeriodPerBucket ==
    ReportReturned =>
        /\ days > 0
        /\ Len(costs) = Len(Buckets)
        /\ \A i \in 1..Len(Buckets) :
              /\ costs[i].Start = Deref(Deref(Buckets[i].TimePeriod).Start)
              /\ costs[i].End = Deref(Deref(Buckets[i].TimePeriod).End)
              /\ Len(costs[i].ServiceCosts) = Len(CompleteEntries(Buckets[i].Groups))

C3_Witness ==
    /\ ReportReturned
    /\ Len(Buckets) = 2
    /\ Len(costs) = 2
    /\ costs[1].Start = "2024-02-01"
    /\ costs[2].Start = "2024-01-01"
    /\ Len(Buckets[1].Groups) = 1

\* C4: an entry without the BlendedCost metric, or without its amount or its
\* unit, adds no ServiceCost to its period, the period stays in the report and
\* no error is returned; every ServiceCost of a report carries the amount and
\* unit of an entry that had both.
C4_IncompleteEntriesSkipped ==
    ReportReturned =>
        /\ err = Nil
        /\ Len(costs) = Len(Buckets)
        /\ \A i \in 1..Len(Buckets) :
              LET kept == CompleteEntries(Buckets[i].Groups)
                  scs == costs[i].ServiceCosts
              IN  /\ Len(scs) = Len(kept)
                  /\ \A j \in 1..Len(kept) :
                        /\ Ptr(scs[j].Amount) = kept[j].Metrics[MetricBlendedCost].Amount
                        /\ Ptr(scs[j].Unit) = kept[j].Metrics[MetricBlendedCost].Unit

C4_Witness ==
    /\ ReportReturned
    /\ Len(Buckets) = 1
    /\ Len(Buckets[1].Groups) = 2
    /\ ~IsComplete(Buckets[1].Groups[1])
    /\ MetricBlendedCost \in DOMAIN Buckets[1].Groups[1].Metrics
    /\ IsComplete(Buckets[1].Groups[2])
    /\ Len(costs) = 1
    /\ Len(costs[1].ServiceCosts) = 1

\* C5: when the collaborator succeeds with zero buckets, GetCostsByService
\* returns a report of zero periods and a nil error.
C5_EmptyResponseIsEmptyReport ==
    (APISucceeded /\ Deref(apiResult).out # Nil /\ Len(Buckets) = 0) =>
        /\ gcs = "returned"
        /\ costs = <<>>
        /\ err = Nil

C5_Witness == ReportReturned /\ Len(Buckets) = 0 /\ pc = "gotCosts"


\* displayCosts has printed the report.
Rendered == gcs = "returned" /\ err = Nil /\ stdout # <<>>

\* The response of the round-trip example: one bucket, one complete entry.
ExampleOutput ==
    Ptr([ResultsByTime |->
            <<[TimePeriod |-> Ptr([Start |-> Ptr("2024-01-01"), End |-> Ptr("2024-01-31")]),
               Groups |-> <<[Keys |-> <<"Amazon EC2">>,
                             Metrics |-> [m \in {"BlendedCost"} |->
                                             [Amount |-> Ptr("100.00"), Unit |-> Ptr("USD")]]]>>]>>])

AllComplete == \A i \in 1..Len(Buckets) : \A j \in 1..Len(Buckets[i].Groups) :
                  IsComplete(Buckets[i].Groups[j])

\* C6: the response with one bucket holding the one entry (Amazon EC2, 100.00,
\* USD) yields exactly one period whose service costs are exactly that entry,
\* and displayCosts prints the line with "Amazon EC2" padded to 30 characters
\* followed by ": 100.00 USD"; in general, when all entries are complete, each
\* entry yields one ServiceCost with the entry's name, amount and unit.
C6_RoundTrip ==
    /\ (ReportReturned /\ Deref(apiResult).out = ExampleOutput) =>
          /\ costs = <<[Start |-> "2024-01-01", End |-> "2024-01-31",
                        ServiceCosts |-> <<[ServiceName |-> "Amazon EC2",
                                            Amount |-> "100.00", Unit |-> "USD"]>>]>>
          /\ Rendered =>
                \E k \in 1..Len(stdout) :
                    stdout[k] = "  Amazon EC2                    : 100.00 USD"
    /\ (ReportReturned /\ AllComplete) =>
          \A i \in 1..Len(Buckets) :
              /\ Len(costs[i].ServiceCosts) = Len(Buckets[i].Groups)
              /\ \A j \in 1..Len(Buckets[i].Groups) :
                    LET g == Buckets[i].Groups[j] IN
                    costs[i].ServiceCosts[j] =
                        [ServiceName |-> IF g.Keys = <<>> THEN "N/A" ELSE g.Keys[1],
                         Amount |-> g.Metrics["BlendedCost"].Amount[1],
                         Unit |-> g.Metrics["BlendedCost"].Unit[1]]

C6_Witness ==
    /\ ReportReturned
    /\ Deref(apiResult).out = ExampleOutput
    /\ Rendered
    /\ Len(stdout) = 5

\* C7: with no webhook URL configured, sendSlackNotification posts nothing and
\* returns to its caller, whatever the message.
C7_NoWebhookNoCall ==
    /\ [](webhookURL = "" => (slackLog = <<>> /\ pc # "posting"))
    /\ [][(pc = "notify" /\ webhookURL = "") =>
             (pc' = after /\ slackLog' = <<>> /\ exitCode' = Nil)]_vars

C7_Witness ==
    /\ webhookURL = ""
    /\ Len(notifyLog) = 1
    /\ pc = "return"
    /\ slackLog = <<>>

\* A post to the webhook has failed.
PostFailed == \E k \in 1..Len(log) : log[k].msg = "Failed to send Slack notification"

\* C8: when the webhook post fails, sendSlackNotification logs the failure and
\* returns to its caller; the exit status is the one of the run without the
\* failure: zero when the report was built and rendered, non-zero when the run
\* failed.
C8_PostFailureNotFatal ==
    /\ [][(pc = "posting" /\ pc' # "posting") =>
             /\ pc' = after
             /\ exitCode' = Nil
             /\ Len(log') = Len(log) + 1
             /\ log'[Len(log')].level \in {"info", "error"}]_vars
    /\ []((pc = "exited" /\ slackLog # <<>>) =>
             /\ Rendered => exitCode = <<0>>
             /\ ~Rendered => (exitCode # Nil /\ exitCode # <<0>>)
             /\ Rendered \/ err # Nil)

C8_Witness ==
    /\ pc = "exited"
    /\ PostFailed
    /\ Rendered
    /\ exitCode = <<0>>

\* C9 as stated, for the invocations of the get command: every invocation
\* makes exactly one cost query and at most one webhook post, the post only
\* after the report was rendered or after a failure and never while the query
\* is in flight.
C9_ExactlyOneQuery ==
    /\ (pc = "exited" /\ argv.cmd = "get") => Len(ceLog) = 1
    /\ Len(ceLog) <= 1
    /\ Len(slackLog) <= 1
    /\ slackLog # <<>> => (pc # "query" /\ gcs # "running" /\ (Rendered \/ err # Nil))

\* C9, amended: every invocation makes at most one cost query (exactly one
\* when the client was constructed and days > 0, none otherwise) and at most
\* one webhook post, the post only after the report was rendered or after a
\* failure and never while the query is in flight.
C9_AtMostOneQuery ==
    /\ Len(ceLog) <= 1
    /\ Len(slackLog) <= 1
    /\ pc = "exited" => (Len(ceLog) = 1 <=> (tracker # Nil /\ days > 0))
    /\ pc \in {"notify", "posting"} => (pc # "query" /\ gcs \in {"idle", "returned"})
    /\ slackLog # <<>> => (pc # "query" /\ gcs # "running" /\ (Rendered \/ err # Nil))
    /\ pc = "query" => (slackLog = <<>> /\ notifyLog = <<>>)

C9_Witness ==
    /\ pc = "exited"
    /\ Len(ceLog) = 1
    /\ Len(slackLog) = 1
    /\ Rendered

\* C10: the process exits non-zero after a client construction failure, a
\* cost-query failure or invalid days, and zero when the report was built and
\* rendered; in both cases sendSlackNotification was invoked before the exit.
C10_ExitStatus ==
    pc = "exited" =>
        /\ ((argv.cmd = "get" /\ tracker = Nil) \/ APIFailed \/ (Called /\ days <= 0)) =>
              /\ exitCode # Nil
              /\ exitCode # <<0>>
              /\ Len(notifyLog) = 1
        /\ (gcs = "returned" /\ err = Nil) =>
              /\ stdout = DisplayLines(costs, days)
              /\ exitCode = <<0>>
              /\ Len(notifyLog) = 1

C10_Witness ==
    /\ pc = "exited"
    /\ APIFailed
    /\ exitCode = <<1>>
    /\ Len(notifyLog) = 1


\* Run has seen the error of NewCostTracker or of GetCostsByService.
FatalError == argv.cmd = "get" /\ err # Nil /\ pc # "gotCosts"

\* The position of the logger.Fatalw that follows the failure's notification.
AbortOf == IF tracker = Nil THEN "fatalTracker" ELSE "fatalCosts"

\* The notification text of the failure.
FailureText ==
    "Cost Tracker Error: "
    \o (IF tracker = Nil THEN "Failed to create cost tracker: " ELSE "Error getting costs: ")
    \o Deref(err)

\* C11: after a failure of client construction or of GetCostsByService the run
\* calls sendSlackNotification exactly once, with "Cost Tracker Error: ..."
\* followed by the error text, before it aborts; whatever the notification
\* does (skipped, posted, post failed) the next position is the abort, which
\* exits with status 1; no success notification is sent in that run.
C11_FatalNotifiesThenAborts ==
    /\ [](FatalError =>
            /\ notifyLog = <<FailureText>>
            /\ SuccessMessage(days) \notin {notifyLog[k] : k \in 1..Len(notifyLog)}
            /\ \A k \in 1..Len(slackLog) : slackLog[k].Text = FailureText
            /\ Len(slackLog) <= 1
            /\ pc \in {"notify", "posting", AbortOf, "exited"}
            /\ pc \in {"notify", "posting"} => after = AbortOf /\ exitCode = Nil
            /\ pc = "exited" => exitCode = Ptr(ExitFatal))
    /\ [][FatalError =>
            /\ pc = "notify" => pc' \in {"posting", AbortOf}
            /\ pc = "posting" => pc' = AbortOf
            /\ pc = AbortOf => pc' = "exited" /\ exitCode' = Ptr(ExitFatal)
            /\ notifyLog' = notifyLog]_vars

C11_Witness ==
    /\ pc = "exited"
    /\ FatalError
    /\ tracker # Nil
    /\ PostFailed
    /\ Len(slackLog) = 1
    /\ exitCode = Ptr(ExitFatal)


\* The documented precedence: flag, then COSTTRACKER_DAYS, then the "days"
\* of the configuration file, then the default.
ResolvedDays(inv) ==
    IF inv.days # Nil THEN Deref(inv.days)
    ELSE IF inv.envDays # Nil THEN Deref(inv.envDays)
    ELSE IF inv.cfgDays # Nil THEN Deref(inv.cfgDays)
    ELSE DefaultDays

\* C12: the days value used by the get command is the --days flag if given,
\* otherwise COSTTRACKER_DAYS if set, otherwise the configuration file's
\* "days" if present, otherwise 30; it is the value passed to
\* GetCostsByService and used for the request's start date.
C12_DaysPrecedence ==
    (argv.cmd = "get" /\ pc # "main") =>
        /\ days = ResolvedDays(argv)
        /\ \A k \in 1..Len(ceLog) :
              \E now \in NowDates :
                 ceLog[k] = CostAndUsageInput(now, ResolvedDays(argv))


\* GetCostsByService returned a report and no error.
Succeeded == gcs = "returned" /\ err = Nil

\* Number of lines displayCosts prints for the period: its heading, one line
\* per service cost (one placeholder line when it has none), a blank line.
LinesOfPeriod(period) ==
    IF Len(period.ServiceCosts) = 0 THEN 3 ELSE Len(period.ServiceCosts) + 2

\* Position on standard output of the heading of the i-th period.
RECURSIVE HeadingAt(_)
HeadingAt(i) == IF i = 1 THEN 3 ELSE HeadingAt(i - 1) + LinesOfPeriod(costs[i - 1])

\* Every period of the report and every service cost of it is on standard
\* output, in the report's order, and nothing follows the last period.
FullReportPrinted ==
    /\ Len(stdout) = IF costs = <<>> THEN 3 ELSE HeadingAt(Len(costs) + 1) - 1
    /\ \A i \in 1..Len(costs) :
          /\ stdout[HeadingAt(i)] = "Period: " \o costs[i].Start \o " to " \o costs[i].End
          /\ \A j \in 1..Len(costs[i].ServiceCosts) :
                LET sc == costs[i].ServiceCosts[j]
                IN  stdout[HeadingAt(i) + j] =
                       "  " \o PadRight(sc.ServiceName, NameWidth) \o ": "
                       \o sc.Amount \o " " \o sc.Unit

\* C13: whenever GetCostsByService succeeds, the next step of the run prints
\* the report and from then on standard output holds every period and every
\* retained ServiceCost of it, also when entries were skipped with a warning.
C13_SuccessPrintsFullReport ==
    /\ []((Succeeded /\ pc # "gotCosts") => FullReportPrinted)
    /\ [][(Succeeded /\ pc = "gotCosts") => (pc' = "displayed" /\ FullReportPrinted')]_vars

C13_Witness ==
    /\ Succeeded
    /\ pc = "exited"
    /\ Len(costs) = 1
    /\ Len(Buckets[1].Groups) = 2
    /\ ~IsComplete(Buckets[1].Groups[2])
    /\ Len(costs[1].ServiceCosts) = 1
    /\ Len(stdout) = 5
    /\ \E k \in 1..Len(log) : log[k].level = "warn"


\* C14: a call of GetCostsByService with days > 0 sends exactly one
\* GetCostAndUsage request: once the call is entered the request has been
\* sent and no step sends another (no second page, no retry), and the step
\* in which the collaborator fails is the step in which the call returns.
C14_OneQueryPerCall ==
    /\ []((Called /\ days > 0) =>
            /\ Len(ceLog) = 1
            /\ APIFailed => (gcs = "returned" /\ err # Nil))
    /\ [][(Called /\ days > 0) => ceLog' = ceLog]_vars
    /\ [][(pc = "query" /\ APIFailed') =>
            (gcs' = "returned" /\ pc' = "gotCosts" /\ ceLog' = ceLog)]_vars

C14_Witness ==
    /\ APIFailed
    /\ gcs = "returned"
    /\ days = 7
    /\ Len(ceLog) = 1
    /\ pc = "exited"


\* Run has called sendSlackNotification after rendering the report.
SuccessNotified == Succeeded /\ pc \notin {"gotCosts", "displayed"}

\* C15 as stated: the success notification is the text "Successfully fetched
\* costs for the last N days." with N the lookback days.
C15_MessageAsStated ==
    SuccessNotified =>
        notifyLog = <<"Successfully fetched costs for the last " \o IntToStr(days) \o " days.">>

\* C15, amended: the success notification is the one-line text "Successfully
\* fetched AWS costs for the last N days." with N the lookback days; it is
\* determined by days alone, so runs with the same days and different reports
\* (periods, services, amounts, or none) notify and post the same text.
C15_MessageOfDaysAlone ==
    SuccessNotified =>
        LET text == "Successfully fetched AWS costs for the last " \o IntToStr(days) \o " days."
        IN  /\ notifyLog = <<text>>
            /\ \A k \in 1..Len(slackLog) : slackLog[k].Text = text

C15_Witness ==
    /\ SuccessNotified
    /\ days = 7
    /\ Len(costs) = 2
    /\ Len(costs[1].ServiceCosts) = 1
    /\ notifyLog = <<"Successfully fetched AWS costs for the last 7 days.">>
    /\ Len(slackLog) = 1


\* The deadline expired while GetCostAndUsage was in flight.
DeadlineExpired == APIFailed /\ Deref(Deref(apiResult).err) = DeadlineExceeded

\* C16: one context with a 5 minute deadline is handed to both SDK calls of
\* the run, first the client construction and then the cost query; when the
\* deadline expires during the query the call returns with the error, nothing
\* is rendered, no success is notified and the process exits with status 1.
C16_OneDeadlineForTheRun ==
    /\ Len(ctxLog) <= 2
    /\ \A k \in 1..Len(ctxLog) :
          /\ ctxLog[k].ctx = Ptr([deadline |-> Ptr(5)])
          /\ ctxLog[k].ctx = ctx
          /\ ctxLog[k].call = IF k = 1 THEN "LoadDefaultConfig" ELSE "GetCostAndUsage"
    /\ Len(ceLog) = 1 => Len(ctxLog) = 2
    /\ DeadlineExpired =>
          /\ gcs = "returned"
          /\ err = Ptr("failed to get cost data from AWS Cost Explorer: context deadline exceeded")
          /\ costs = <<>>
          /\ stdout = <<>>
          /\ pc \in {"gotCosts", "notify", "posting", "fatalCosts", "exited"}
          /\ pc # "gotCosts" => notifyLog = <<"Cost Tracker Error: Error getting costs: " \o Deref(err)>>
          /\ pc = "exited" => exitCode = Ptr(ExitFatal)

C16_Witness ==
    /\ DeadlineExpired
    /\ pc = "exited"
    /\ exitCode = Ptr(ExitFatal)
    /\ Len(ctxLog) = 2
    /\ ctxLog[2] = [call |-> "GetCostAndUsage", ctx |-> Ptr([deadline |-> Ptr(5)])]


\* C17: NewCostTracker returns either a non-nil tracker whose client is
\* non-nil together with a nil error, or a nil tracker together with a
\* non-nil error, and nothing else; Run goes on to GetCostsByService only
\* with the former.
C17_TrackerOrError ==
    /\ [][pc = "newTracker" =>
            \/ tracker' # Nil /\ Deref(tracker').client # Nil /\ err' = Nil
            \/ tracker' = Nil /\ err' # Nil]_vars
    /\ []((argv.cmd = "get" /\ pc \notin {"main", "newTracker"}) =>
            \/ tracker # Nil /\ Deref(tracker).client # Nil
            \/ /\ tracker = Nil
               /\ err # Nil
               /\ \E e \in ConfigErrors : err = Ptr("unable to load SDK config: " \o e)
               /\ ~Called)

C17_Witness ==
    /\ pc = "fatalTracker"
    /\ tracker = Nil
    /\ err = Ptr("unable to load SDK config: failed to refresh cached credentials")


\* C18: the service name of every ServiceCost is the first grouping key of
\* the entry it was built from, whatever further keys the entry has, and
\* "N/A" when the entry has no key.
C18_ServiceNameIsFirstKey ==
    ReportReturned =>
        \A i \in 1..Len(Buckets) :
           LET kept == CompleteEntries(Buckets[i].Groups)
           IN  \A j \in 1..Len(kept) :
                  costs[i].ServiceCosts[j].ServiceName =
                     IF kept[j].Keys = <<>> THEN "N/A" ELSE Head(kept[j].Keys)

C18_Witness ==
    /\ ReportReturned
    /\ Len(Buckets) = 1
    /\ Len(Buckets[1].Groups) = 2
    /\ Buckets[1].Groups[1].Keys = <<"Amazon S3", "Amazon EC2">>
    /\ Buckets[1].Groups[2].Keys = <<>>
    /\ Len(costs[1].ServiceCosts) = 2
    /\ costs[1].ServiceCosts[1].ServiceName = "Amazon S3"
    /\ costs[1].ServiceCosts[2].ServiceName = "N/A"

\* C19: the report carries the collaborator's strings unchanged: a period's
\* start and end are the bucket's own (not the dates of the request), and a
\* ServiceCost's amount and unit are those of the entry's BlendedCost metric.
C19_ValuesVerbatim ==
    ReportReturned =>
        \A i \in 1..Len(Buckets) :
           LET period == Deref(Buckets[i].TimePeriod)
               kept == CompleteEntries(Buckets[i].Groups)
           IN  /\ <<costs[i].Start, costs[i].End>> = <<Deref(period.Start), Deref(period.End)>>
               /\ \A j \in 1..Len(kept) :
                     /\ Ptr(costs[i].ServiceCosts[j].Amount) = kept[j].Metrics["BlendedCost"].Amount
                     /\ Ptr(costs[i].ServiceCosts[j].Unit) = kept[j].Metrics["BlendedCost"].Unit

C19_Witness ==
    /\ ReportReturned
    /\ Len(costs) = 1
    /\ costs[1].Start = "2024-02-01"
    /\ costs[1].End = "2024-02-29"
    /\ ceLog[1].TimePeriod = [Start |-> "2024-01-24", End |-> "2024-01-31"]
    /\ Len(costs[1].ServiceCosts) = 1
    /\ costs[1].ServiceCosts[1].Amount = "7.50"
    /\ costs[1].ServiceCosts[1].Unit = "USD"

\* The ServiceCost the report holds for a complete entry.
CostOf(g) ==
    [ServiceName |-> IF g.Keys = <<>> THEN "N/A" ELSE Head(g.Keys),
     Amount |-> Deref(g.Metrics["BlendedCost"].Amount),
     Unit |-> Deref(g.Metrics["BlendedCost"].Unit)]

\* C20: the service costs of a period are those of the bucket's complete
\* entries in the bucket's order, one for each: the incomplete entries are
\* dropped and the relative order of the others is kept.
C20_OrderPreservingSubsequence ==
    ReportReturned =>
        \A i \in 1..Len(Buckets) :
           LET kept == CompleteEntries(Buckets[i].Groups)
           IN  costs[i].ServiceCosts = [j \in 1..Len(kept) |-> CostOf(kept[j])]

C20_Witness ==
    /\ ReportReturned
    /\ Len(Buckets) = 1
    /\ Len(Buckets[1].Groups) = 2
    /\ costs[1].ServiceCosts =
          <<[ServiceName |-> "Amazon EC2", Amount |-> "7.50", Unit |-> "USD"],
            [ServiceName |-> "Amazon S3", Amount |-> "100.00", Unit |-> "USD"]>>


\* The collaborator's output with the incomplete entries of every bucket
\* removed.
WithoutIncomplete ==
    Ptr([ResultsByTime |->
            [i \in 1..Len(Buckets) |->
                [Buckets[i] EXCEPT !.Groups = CompleteEntries(@)]]])

\* C21: the report returned for a response is the report GetCostsByService
\* builds for the same response without its incomplete entries: same periods
\* in the same order, same service costs; and that report is built without
\* an error.
C21_SkippingIsTheOnlyEffect ==
    ReportReturned =>
        LET cleaned == BuildReport(WithoutIncomplete)
        IN  /\ ~cleaned.panicked
            /\ cleaned.err = err
            /\ cleaned.allCosts = costs
            /\ cleaned.warns = <<>>

C21_Witness ==
    /\ ReportReturned
    /\ Len(Buckets) = 1
    /\ Len(Buckets[1].Groups) = 2
    /\ ~IsComplete(Buckets[1].Groups[1])
    /\ IsComplete(Buckets[1].Groups[2])
    /\ Deref(WithoutIncomplete).ResultsByTime[1].Groups = <<Buckets[1].Groups[2]>>
    /\ Len(costs[1].ServiceCosts) = 1


\* A name left-aligned in a column of 30 characters.
ThirtySpaces == "                              "
NameColumn(name) ==
    IF Len(name) >= 30 THEN name ELSE name \o SubSeq(ThirtySpaces, 1, 30 - Len(name))

\* C22: for a report with periods, standard output holds the periods in the
\* report's order and nothing after the last: for each its "Period: <start>
\* to <end>" line, then the indented "No service costs found for this
\* period." line when it has no service cost, otherwise one indented line
\* "<name in 30 columns>: <amount> <unit>" per ServiceCost in order, then a
\* blank line.
C22_PeriodsRendered ==
    (Rendered /\ costs # <<>>) =>
        /\ Len(stdout) = HeadingAt(Len(costs) + 1) - 1
        /\ \A i \in 1..Len(costs) :
              LET h == HeadingAt(i)
                  n == Len(costs[i].ServiceCosts)
              IN  /\ stdout[h] = "Period: " \o costs[i].Start \o " to " \o costs[i].End
                  /\ n = 0 => stdout[h + 1] = "  No service costs found for this period."
                  /\ \A j \in 1..n :
                        stdout[h + j] =
                           "  " \o NameColumn(costs[i].ServiceCosts[j].ServiceName) \o ": "
                           \o costs[i].ServiceCosts[j].Amount \o " "
                           \o costs[i].ServiceCosts[j].Unit
                  /\ stdout[h + (IF n = 0 THEN 2 ELSE n + 1)] = ""

C22_Witness ==
    /\ Rendered
    /\ Len(costs) = 2
    /\ SubSeq(stdout, 3, 8) =
          <<"Period: 2024-01-01 to 2024-01-31",
            "  N/A                           : 7.50 USD",
            "",
            "Period: 2024-02-01 to 2024-02-29",
            "  No service costs found for this period.",
            "">>

\* C23: whatever the report, the first lines on standard output are the
\* header "AWS Costs for the last <days> days:" and its rule; for a report
\* without periods the only line after them is "No cost data found for the
\* specified period.".
C23_EmptyReportRendered ==
    Rendered =>
        /\ Len(stdout) >= 3
        /\ stdout[1] = "AWS Costs for the last " \o IntToStr(days) \o " days:"
        /\ stdout[2] = "====================================="
        /\ costs = <<>> =>
              /\ Len(stdout) = 3
              /\ stdout[3] = "No cost data found for the specified period."
        /\ costs # <<>> =>
              \A k \in 1..Len(stdout) :
                 stdout[k] # "No cost data found for the specified period."

C23_Witness ==
    /\ ReportReturned
    /\ costs = <<>>
    /\ stdout = <<"AWS Costs for the last 7 days:",
                  "=====================================",
                  "No cost data found for the specified period.">>


\* The intervals from today minus d days to today, for the days on which the
\* program is run and the lookbacks it is run with.
IntervalsBack(d) ==
    CASE d = 7 -> {[Start |-> "2024-01-24", End |-> "2024-01-31"],
                   [Start |-> "2024-02-23", End |-> "2024-03-01"]}
      [] d = 30 -> {[Start |-> "2024-01-01", End |-> "2024-01-31"],
                    [Start |-> "2024-01-31", End |-> "2024-03-01"]}
      [] OTHER -> {}

\* C24: for days > 0 the one request sent has the interval from today minus
\* days calendar days to today, both as YYYY-MM-DD and the start before the
\* end, granularity MONTHLY, the single metric BlendedCost and the single
\* group-by DIMENSION SERVICE.
C24_RequestFields ==
    (Called /\ days > 0) =>
        /\ Len(ceLog) = 1
        /\ ceLog[1].TimePeriod \in IntervalsBack(days)
        /\ ceLog[1].TimePeriod.Start # ceLog[1].TimePeriod.End
        /\ Len(ceLog[1].TimePeriod.Start) = 10
        /\ Len(ceLog[1].TimePeriod.End) = 10
        /\ ceLog[1].Granularity = "MONTHLY"
        /\ ceLog[1].Metrics = <<"BlendedCost">>
        /\ ceLog[1].GroupBy = <<[Type |-> "DIMENSION", Key |-> "SERVICE"]>>

C24_Witness ==
    /\ pc = "query"
    /\ days = 30
    /\ ceLog = <<[TimePeriod |-> [Start |-> "2024-01-31", End |-> "2024-03-01"],
                  Granularity |-> "MONTHLY",
                  Metrics |-> <<"BlendedCost">>,
                  GroupBy |-> <<[Type |-> "DIMENSION", Key |-> "SERVICE"]>>]>>

\* The incomplete entries of a bucket's groups.
IsIncomplete(g) == ~IsComplete(g)
SkippedEntries(groups) == SelectSeq(groups, IsIncomplete)

\* The warning expected for a skipped entry g of bucket b.
WarningFor(b, g) ==
    [metric |-> "BlendedCost",
     service |-> IF g.Keys = <<>> THEN "N/A" ELSE Head(g.Keys),
     periodStart |-> Deref(Deref(b.TimePeriod).Start),
     periodEnd |-> Deref(Deref(b.TimePeriod).End)]

\* The warnings expected for the buckets from the i-th on, in order.
RECURSIVE WarningsFrom(_)
WarningsFrom(i) ==
    IF i > Len(Buckets) THEN <<>>
    ELSE LET skipped == SkippedEntries(Buckets[i].Groups)
         IN  [j \in 1..Len(skipped) |-> WarningFor(Buckets[i], skipped[j])]
             \o WarningsFrom(i + 1)

\* The warnings in the log, in order.
IsWarning(entry) == entry.level = "warn"
Warnings == SelectSeq(log, IsWarning)

\* C25: the warnings logged while a report is built are, in order, one per
\* skipped entry, each with the metric name, the entry's service name (or
\* "N/A") and its period's start and end; complete entries log none, so
\* there are as many warnings as skipped entries.
C25_OneWarningPerSkippedEntry ==
    ReportReturned =>
        LET expected == WarningsFrom(1)
        IN  /\ Len(Warnings) = Len(expected)
            /\ \A k \in 1..Len(expected) :
                  /\ Warnings[k].metric = expected[k].metric
                  /\ Warnings[k].service = expected[k].service
                  /\ Warnings[k].periodStart = expected[k].periodStart
                  /\ Warnings[k].periodEnd = expected[k].periodEnd

C25_Witness ==
    /\ ReportReturned
    /\ Len(Buckets) = 1
    /\ Len(Buckets[1].Groups) = 2
    /\ Len(Warnings) = 2
    /\ Warnings[1].service = "N/A"
    /\ Warnings[2].service = "Amazon S3"
    /\ Warnings[2].periodStart = "2024-02-01"
    /\ costs[1].ServiceCosts = <<>>


\* C26: once GetCostsByService has returned, no step of the run (rendering,
\* notification, exit) changes the report, which stays the one built from
\* the response; and a run starts without a report: until the call returns
\* Run holds none.
C26_ReportNotMutated ==
    /\ [][gcs = "returned" => costs' = costs]_vars
    /\ [](ReportReturned => costs = BuildReport(Deref(apiResult).out).allCosts)
    /\ [](gcs # "returned" => costs = <<>>)

C26_Witness ==
    /\ pc = "exited"
    /\ Rendered
    /\ Len(slackLog) = 1
    /\ Len(costs) = 2
    /\ costs[1].Start = "2024-02-01"
    /\ costs[2].Start = "2024-01-01"
    /\ Len(costs[2].ServiceCosts) = 1


\* C27: whenever the collaborator answers without an error, GetCostsByService
\* returns (a report or an error value): the process does not die in it,
\* whether a bucket lacks its time period, its start or its end, or the
\* output itself is nil.
C27_ReturnsForEveryResponse ==
    APISucceeded =>
        /\ gcs = "returned"
        /\ exitCode # Ptr(ExitPanic)


\* C28: two complete entries of one bucket with the same service name give
\* two ServiceCosts of the period, at the entries' positions among the
\* complete ones, each with the name and with its own entry's amount and
\* unit: nothing is merged or summed.
C28_SameServiceNotMerged ==
    ReportReturned =>
        \A i \in 1..Len(Buckets) :
           LET kept == CompleteEntries(Buckets[i].Groups)
               name(g) == IF g.Keys = <<>> THEN "N/A" ELSE Head(g.Keys)
               own(g) == <<name(g), Deref(g.Metrics["BlendedCost"].Amount),
                           Deref(g.Metrics["BlendedCost"].Unit)>>
               got(sc) == <<sc.ServiceName, sc.Amount, sc.Unit>>
           IN  \A j, k \in 1..Len(kept) :
                  (j < k /\ name(kept[j]) = name(kept[k])) =>
                     /\ Len(costs[i].ServiceCosts) >= k
                     /\ got(costs[i].ServiceCosts[j]) = own(kept[j])
                     /\ got(costs[i].ServiceCosts[k]) = own(kept[k])

C28_Witness ==
    /\ ReportReturned
    /\ Len(Buckets) = 1
    /\ Len(Buckets[1].Groups) = 2
    /\ Buckets[1].Groups[1].Keys = Buckets[1].Groups[2].Keys
    /\ costs[1].ServiceCosts =
          <<[ServiceName |-> "Amazon EC2", Amount |-> "100.00", Unit |-> "USD"],
            [ServiceName |-> "Amazon EC2", Amount |-> "7.50", Unit |-> "USD"]>>


\* The positions on standard output of the rule that follows the header.
HeaderRules == {k \in 1..Len(stdout) : stdout[k] = "====================================="}

\* C29: in a run of the get command nothing is printed when NewCostTracker
\* or GetCostsByService failed (or the process died in it); what is printed
\* is one rendering of a report returned without error, and it is printed
\* before the success notification is called.
C29_RenderOnlyAfterSuccess ==
    argv.cmd = "get" =>
        /\ (err # Nil \/ tracker = Nil \/ gcs \in {"idle", "running", "panicked"}) =>
              stdout = <<>>
        /\ stdout # <<>> =>
              /\ Succeeded
              /\ Cardinality(HeaderRules) = 1
              /\ Len(stdout) = IF costs = <<>> THEN 3 ELSE HeadingAt(Len(costs) + 1) - 1
        /\ pc \in {"gotCosts", "displayed"} => notifyLog = <<>>
        /\ (notifyLog # <<>> /\ err = Nil) => stdout # <<>>

C29_Witness ==
    /\ pc = "exited"
    /\ days = -5
    /\ gcs = "returned"
    /\ stdout = <<>>
    /\ Len(notifyLog) = 1

\* The collaborator answered with an output that has no bucket.
EmptyResponse == ReportReturned /\ Buckets = <<>>

\* C30: when the collaborator succeeds with zero buckets the run goes the
\* way of a success: no error, then the header with the line "No cost data
\* found for the specified period." on standard output, then the success
\* notification and no other, then exit status 0.
C30_EmptyReportIsSuccess ==
    EmptyResponse =>
        /\ err = Nil
        /\ costs = <<>>
        /\ pc \in {"gotCosts", "displayed", "notify", "posting", "return", "exited"}
        /\ pc # "gotCosts" =>
              /\ Len(stdout) = 3
              /\ stdout[3] = "No cost data found for the specified period."
        /\ pc \notin {"gotCosts", "displayed"} =>
              notifyLog = <<"Successfully fetched AWS costs for the last "
                            \o IntToStr(days) \o " days.">>
        /\ pc = "exited" => exitCode = Ptr(0)

C30_Witness ==
    /\ EmptyResponse
    /\ pc = "exited"
    /\ exitCode = Ptr(0)
    /\ Len(stdout) = 3
    /\ slackLog = <<[url |-> "https://hooks.slack.com/services/T0/B0/X0",
                    Text |-> "Successfully fetched AWS costs for the last 30 days."]>>

====
